---- MODULE Spec2Model ----
(***************************************************************************)
(* State-machine model of the EirTests runner: TestRunner.run() and the    *)
(* CLI around it (src/src/runner.ts), the fetch of the test definitions    *)
(* (src/src/api-client.ts) and the secrets provider (src/src/secrets).     *)
(*                                                                         *)
(* Paths are sequences of segments; an absolute path starts with "/".      *)
(* Source texts are sequences of tokens: "F" is a run of three backticks,  *)
(* "N" a newline, "TS" the word typescript, "L" another language tag and   *)
(* "x", "y" ordinary characters.                                           *)
(***************************************************************************)
EXTENDS Integers, Sequences, FiniteSets, TLC

\* ------------------------------------------------------------------ bounds
MaxTests == 2
MaxSrcLen == 3
MaxSuites == 2
MaxSpecs == 2
MaxAttempts == 2

\* ------------------------------------------------------------ sequences
Last(s) == s[Len(s)]

Front(s) == SubSeq(s, 1, Len(s) - 1)

IsPrefix(p, s) == Len(p) <= Len(s) /\ SubSeq(s, 1, Len(p)) = p

IsSuffix(p, s) == Len(p) <= Len(s) /\ SubSeq(s, Len(s) - Len(p) + 1, Len(s)) = p

DropPrefix(p, s) == IF IsPrefix(p, s) THEN SubSeq(s, Len(p) + 1, Len(s)) ELSE s

DropSuffix(p, s) == IF IsSuffix(p, s) THEN SubSeq(s, 1, Len(s) - Len(p)) ELSE s

RECURSIVE SeqsUpTo(_, _)
SeqsUpTo(S, n) ==
  IF n = 0 THEN {<<>>}
  ELSE LET shorter == SeqsUpTo(S, n - 1)
       IN shorter \cup {Append(s, e) : s \in shorter, e \in S}

Put(f, k, v) == [x \in (DOMAIN f) \cup {k} |-> IF x = k THEN v ELSE f[x]]

\* ---------------------------------------------------------------- paths
\* path.join(a, b): concatenate, then normalise: "." and empty segments and
\* a separator that is not leading are dropped, ".." removes the segment
\* before it (and stays at the root of an absolute path).
RECURSIVE NormalizeFrom(_, _)
NormalizeFrom(acc, rest) ==
  IF rest = <<>> THEN acc
  ELSE LET s == Head(rest)
           t == Tail(rest)
       IN IF s = "." \/ s = "" \/ (s = "/" /\ acc # <<>>)
            THEN NormalizeFrom(acc, t)
          ELSE IF s = ".."
            THEN IF acc = <<>> \/ Last(acc) = ".."
                   THEN NormalizeFrom(Append(acc, s), t)
                 ELSE IF acc = <<"/">>
                   THEN NormalizeFrom(acc, t)
                 ELSE NormalizeFrom(Front(acc), t)
          ELSE NormalizeFrom(Append(acc, s), t)

PathJoin(a, b) == NormalizeFrom(<<>>, a \o b)

\* path.dirname of a normalised absolute path
PathDirname(p) == IF Len(p) <= 1 THEN p ELSE Front(p)

\* this.tempDir, `/tmp/eirtests-${Date.now()}`
TempDir == <<"/", "tmp", "eirtests-1">>

\* ------------------------------------------------------------ file system
\* fs = [files: path -> content, dirs: set of paths]
FsExists(fs, p) == p \in fs.dirs \/ p \in DOMAIN fs.files

Ancestors(p) == {SubSeq(p, 1, k) : k \in 1..Len(p)}

\* fs.mkdirSync(p, {recursive: true}) throws when p or one of its ancestors
\* is a regular file
MkdirCanSucceed(fs, p) == Ancestors(p) \cap DOMAIN fs.files = {}

MkdirRecursive(fs, p) == [fs EXCEPT !.dirs = @ \cup Ancestors(p)]

\* fs.writeFileSync(p, ...) throws when p is a directory or its parent is
\* not a directory
WriteCanSucceed(fs, p) == p \notin fs.dirs /\ PathDirname(p) \in fs.dirs

WriteFile(fs, p, c) == [fs EXCEPT !.files = Put(@, p, c)]

\* fs.rmSync(p, {recursive: true, force: true})
RmRecursive(fs, p) ==
  [files |-> [q \in {r \in DOMAIN fs.files : ~IsPrefix(p, r)} |-> fs.files[q]],
   dirs  |-> {d \in fs.dirs : ~IsPrefix(p, d)}]

\* ------------------------------------------------------- inputs (bounded)
\* test.playwright_code: null and the empty string are both falsy
NoCode == <<>>

PlaywrightCodes == {NoCode, <<"x">>, <<"F", "N", "y", "N", "F">>}

\* test.file_path values the remote source may declare
FilePaths == {<<"a.ts">>, <<"d", "a.ts">>, <<"d">>, <<"..", "o.ts">>}

\* the i-th definition of a fetched list has id i
TestLists ==
  {[i \in 1..n |-> [id |-> i, playwright_code |-> c[i], file_path |-> p[i]]] :
     <<n, c, p>> \in
       UNION {{<<m, cc, pp>> : cc \in [1..m -> PlaywrightCodes],
                               pp \in [1..m -> FilePaths]} : m \in 0..MaxTests}}

\* variables of process.env that may be set
EnvKeys == {"TEST_LOGIN_USERNAME", "BASE_URL", "HOME"}

\* ------------------------------------------------------ writeTestFiles
\* code = code.replace(/^```typescript\n/, '').replace(/^```\n/, '')
\*            .replace(/\n```$/, '')   when code.startsWith('```')
CleanCode(code) ==
  IF code # <<>> /\ Head(code) = "F"
    THEN DropSuffix(<<"N", "F">>,
           DropPrefix(<<"F", "N">>,
             DropPrefix(<<"F", "TS", "N">>, code)))
    ELSE code

\* variant: a definition without code is counted as written
WriteOneCountsSkipped(st, test, ioError) ==
  IF test.playwright_code = NoCode THEN [st EXCEPT !.written = @ + 1]
  ELSE
    LET fullPath == PathJoin(TempDir, test.file_path)
        dir      == PathDirname(fullPath)
        fs1      == IF MkdirCanSucceed(st.fs, dir)
                      THEN MkdirRecursive(st.fs, dir) ELSE st.fs
    IN IF ioError \/ ~WriteCanSucceed(fs1, fullPath)
         THEN [st EXCEPT !.fs = fs1, !.threw = TRUE, !.failedId = test.id]
       ELSE [st EXCEPT !.fs = WriteFile(fs1, fullPath, CleanCode(test.playwright_code)),
                       !.map = Put(@, fullPath, test.id),
                       !.written = @ + 1]

\* variant: the map entry is stored before the file is written
WriteOneMapsFirst(st, test, ioError) ==
  IF test.playwright_code = NoCode THEN st
  ELSE
    LET fullPath == PathJoin(TempDir, test.file_path)
        dir      == PathDirname(fullPath)
        needDir  == ~FsExists(st.fs, dir)
        fs1      == IF needDir /\ MkdirCanSucceed(st.fs, dir)
                      THEN MkdirRecursive(st.fs, dir) ELSE st.fs
    IN IF needDir /\ ~MkdirCanSucceed(st.fs, dir)
         THEN [st EXCEPT !.threw = TRUE, !.failedId = test.id]
       ELSE IF ioError \/ ~WriteCanSucceed(fs1, fullPath)
         THEN [st EXCEPT !.fs = fs1, !.map = Put(@, fullPath, test.id),
                         !.threw = TRUE, !.failedId = test.id]
       ELSE [st EXCEPT !.fs = WriteFile(fs1, fullPath, CleanCode(test.playwright_code)),
                       !.map = Put(@, fullPath, test.id),
                       !.written = @ + 1]

\* one iteration of the loop of writeTestFiles; ioError says that the
\* operating system refuses this definition's write (permissions, disk full)
WriteOne(st, test, ioError) ==
  IF test.playwright_code = NoCode THEN st
  ELSE
    LET fullPath == PathJoin(TempDir, test.file_path)
        dir      == PathDirname(fullPath)
        needDir  == ~FsExists(st.fs, dir)
        fs1      == IF needDir /\ MkdirCanSucceed(st.fs, dir)
                      THEN MkdirRecursive(st.fs, dir) ELSE st.fs
    IN IF needDir /\ ~MkdirCanSucceed(st.fs, dir)
         THEN [st EXCEPT !.threw = TRUE, !.failedId = test.id]
       ELSE IF ioError \/ ~WriteCanSucceed(fs1, fullPath)
         THEN [st EXCEPT !.fs = fs1, !.threw = TRUE, !.failedId = test.id]
       ELSE [st EXCEPT !.fs = WriteFile(fs1, fullPath, CleanCode(test.playwright_code)),
                       !.map = Put(@, fullPath, test.id),
                       !.written = @ + 1]

\* the loop of writeTestFiles from index i on; it stops at the first throw
RECURSIVE WriteFrom(_, _, _, _)
WriteFrom(st, tests, i, failAt) ==
  IF i > Len(tests) \/ st.threw THEN st
  ELSE WriteFrom(WriteOne(st, tests[i], i = failAt), tests, i + 1, failAt)

writeTestFiles(fs0, map0, tests, failAt) ==
  WriteFrom([fs |-> fs0, map |-> map0, written |-> 0, threw |-> FALSE, failedId |-> 0],
            tests, 1, failAt)

\* ---------------------------------------------------------------- secrets
\* EnvSecretsProvider.getSecretsForPlaywright: the TEST_ variables and BASE_URL
getSecretsForPlaywright(env) == env \cap {"TEST_LOGIN_USERNAME", "BASE_URL"}

\* ------------------------------------------------------------ executeTests
\* outcome of execSync: status 0 (returns), a nonzero exit status, or no
\* status at all (the engine could not be started or was killed)
NoStatus == -1

\* a number not yet assigned
NoValue == -2

EngineStatuses == {0, 1, 2, NoStatus}

\* variant: every nonzero status is returned as 1
ExitCodeOfFlattened(status) == IF status = 0 THEN 0 ELSE 1

\* return 0, or error.status || 1
ExitCodeOf(status) == IF status = NoStatus THEN 1 ELSE status

\* ----------------------------------------------------------- reportResults
\* segments that end in a match of /eirtests-\d+/
EirSegments == {"eirtests-0", "eirtests-1", "eirtests-2"}

\* testFilePath.match(/eirtests-\d+\/(.+)$/): the leftmost such segment that
\* is followed by a separator and at least one more character
MatchPositions(file) == {k \in 1..(Len(file) - 1) : file[k] \in EirSegments}

MinOf(S) == CHOOSE k \in S : \A j \in S : k <= j

\* the path looked up in testFileToCardIdMap for suite.file
TestFilePathOf(file) ==
  IF MatchPositions(file) # {}
    THEN PathJoin(TempDir, SubSeq(file, MinOf(MatchPositions(file)) + 1, Len(file)))
    ELSE file

\* variant: the first attempt is taken instead of the last
RecordOfFirstAttempt(testCardId, results) ==
  LET latestResult == Head(results)
      passed == latestResult.status = "passed"
  IN [test_card_id |-> testCardId,
      passed |-> passed,
      duration_ms |-> latestResult.duration,
      error_message |-> latestResult.error,
      status |-> IF passed THEN "passed" ELSE "failed"]

\* the record pushed for one spec whose first test has the attempts `results`
RecordOf(testCardId, results) ==
  LET latestResult == Last(results)
      passed == latestResult.status = "passed"
  IN [test_card_id |-> testCardId,
      passed |-> passed,
      duration_ms |-> latestResult.duration,
      error_message |-> latestResult.error,
      status |-> IF passed THEN "passed" ELSE "failed"]

RECURSIVE SpecRecords(_, _)
SpecRecords(testCardId, specs) ==
  IF specs = <<>> THEN <<>>
  ELSE IF Head(specs) = <<>>
    THEN SpecRecords(testCardId, Tail(specs))
    ELSE <<RecordOf(testCardId, Head(specs))>> \o SpecRecords(testCardId, Tail(specs))

\* variant: the loop ends at the first suite that is not found in the map
RECURSIVE CollectResultsStopsAtUnmatched(_, _)
CollectResultsStopsAtUnmatched(map, suites) ==
  IF suites = <<>> THEN <<>>
  ELSE LET suite == Head(suites)
           testFilePath == TestFilePathOf(suite.file)
       IN IF testFilePath \in DOMAIN map
            THEN SpecRecords(map[testFilePath], suite.specs)
                   \o CollectResultsStopsAtUnmatched(map, Tail(suites))
            ELSE <<>>

\* the loop over playwrightResults.suites
RECURSIVE CollectResults(_, _)
CollectResults(map, suites) ==
  IF suites = <<>> THEN <<>>
  ELSE LET suite == Head(suites)
           testFilePath == TestFilePathOf(suite.file)
       IN IF testFilePath \in DOMAIN map
            THEN SpecRecords(map[testFilePath], suite.specs)
                   \o CollectResults(map, Tail(suites))
            ELSE CollectResults(map, Tail(suites))

\* attempts: [status, duration, error], error = "" when the attempt carries none
AttemptFailed == [status |-> "failed", duration |-> 7, error |-> "boom"]

AttemptPassed == [status |-> "passed", duration |-> 5, error |-> ""]

\* reports the engine may leave in test-results.json
EngineReports ==
  { <<>>,
    << [file |-> <<"eirtests-1", "a.ts">>,
        specs |-> << <<AttemptFailed, AttemptPassed>> >>] >>,
    << [file |-> <<"/", "tmp", "eirtests-1", "d", "a.ts">>,
        specs |-> << <<AttemptFailed>>, <<>> >>] >>,
    << [file |-> <<"other", "b.ts">>, specs |-> << <<AttemptPassed>> >>] >> }

\* `by` names the run whose engine wrote the file: 1 is this run, 0 nobody
NoReport == [kind |-> "absent", suites |-> <<>>, by |-> 0]

MalformedReport == [kind |-> "malformed", suites |-> <<>>, by |-> 1]

ReportFiles ==
  {NoReport, MalformedReport} \cup {[kind |-> "ok", suites |-> r, by |-> 1] : r \in EngineReports}

NoSubmission == [sent |-> FALSE, status |-> "", results |-> <<>>, response |-> "none"]

\* ------------------------------------------------------------------ state
VARIABLES
  pc,                   \* position of the run
  entry,                \* "cli": started by runTests; "api": run() called directly
  config,               \* [apiKey, siteId: set or not; reporting: reporting.enabled]
  exportedTests,        \* [isNull, tests]
  fs,                   \* the file system
  testFileToCardIdMap,  \* full path -> test id
  testsWritten,
  secrets,
  exitCode,             \* what executeTests returned
  reportFile,           \* test-results.json in the working directory
  submission,           \* the POST of reportResults
  retval,               \* what run() returned
  processExit,          \* the argument of process.exit
  calls,                \* how often each external effect was performed
  failedStage,          \* the stage whose exception reached the catch of run()
  materialized,         \* what writeTestFiles left when it returned or threw
  engineStatus,         \* the status execSync ended with
  fetchOutcome          \* how the GET of getTests ended

vars == <<pc, entry, config, exportedTests, fs, testFileToCardIdMap, testsWritten,
          secrets, exitCode, reportFile, submission, retval, processExit, calls,
          failedStage, materialized, engineStatus, fetchOutcome>>

NoCalls ==
  [fetch |-> 0, mkdir |-> 0, write |-> 0, secrets |-> 0, engine |-> 0,
   correlate |-> 0, submit |-> 0, cleanup |-> 0, rm |-> 0]

EmptyFs == [files |-> <<>>, dirs |-> {<<"/">>, <<"/", "tmp">>}]

NotMaterialized ==
  [fs |-> EmptyFs, map |-> <<>>, written |-> 0, threw |-> FALSE, failedId |-> 0]

Init ==
  /\ entry \in {"cli", "api"}
  /\ config \in [apiKey : BOOLEAN, siteId : BOOLEAN, reporting : BOOLEAN]
  /\ pc = IF entry = "cli" THEN "cli" ELSE "start"
  /\ exportedTests = [isNull |-> TRUE, tests |-> <<>>]
  /\ fs = EmptyFs
  /\ testFileToCardIdMap = <<>>
  /\ testsWritten = 0
  /\ secrets = {}
  /\ exitCode = NoValue
  /\ reportFile = NoReport
  /\ submission = NoSubmission
  /\ retval = NoValue
  /\ processExit = NoValue
  /\ calls = NoCalls
  /\ failedStage = "none"
  /\ materialized = NotMaterialized
  /\ engineStatus = NoValue
  /\ fetchOutcome = "none"

\* ---------------------------------------------------------------- cleanup
\* variant: a removal that is not recursive: a call removes the files below
\* the temp directory when there are any, and the directories otherwise
CleanedFsFilesFirst(f) ==
  IF ~FsExists(f, TempDir) THEN f
  ELSE IF \E q \in DOMAIN f.files : IsPrefix(TempDir, q)
    THEN [f EXCEPT !.files =
            [q \in {r \in DOMAIN f.files : ~IsPrefix(TempDir, r)} |-> f.files[q]]]
  ELSE RmRecursive(f, TempDir)

\* TestRunner.cleanup: remove the temp directory when it exists
CleanedFs(f) == IF FsExists(f, TempDir) THEN RmRecursive(f, TempDir) ELSE f

CleanedCalls(f, c) ==
  [c EXCEPT !.cleanup = @ + 1, !.rm = @ + (IF FsExists(f, TempDir) THEN 1 ELSE 0)]

\* variant: the catch block returns 1 without cleaning up
CatchWithoutCleanup(stage, f, c) ==
  /\ fs' = f
  /\ calls' = c
  /\ failedStage' = stage
  /\ retval' = 1
  /\ pc' = "returned"

\* the catch block of run(): cleanup, return 1
Catch(stage, f, c) ==
  /\ fs' = CleanedFs(f)
  /\ calls' = CleanedCalls(f, c)
  /\ failedStage' = stage
  /\ retval' = 1
  /\ pc' = "returned"

\* ---------------------------------------------------------------- actions
\* runTests of the CLI: check the configuration, construct the runner
RunTests ==
  /\ pc = "cli"
  /\ IF ~config.apiKey \/ ~config.siteId
       THEN /\ processExit' = 1
            /\ pc' = "exited"
       ELSE /\ pc' = "start"
            /\ UNCHANGED processExit
  /\ UNCHANGED <<entry, config, exportedTests, fs, testFileToCardIdMap, testsWritten,
                 secrets, exitCode, reportFile, submission, retval, calls,
                 failedStage, materialized, engineStatus, fetchOutcome>>

\* variant: run() without validateConfig
StartRunUnvalidated ==
  /\ pc = "start"
  /\ calls' = [calls EXCEPT !.fetch = @ + 1]
  /\ pc' = "fetching"
  /\ UNCHANGED <<fs, failedStage, retval>>
  /\ UNCHANGED <<entry, config, exportedTests, testFileToCardIdMap, testsWritten,
                 secrets, exitCode, reportFile, submission, processExit,
                 materialized, engineStatus, fetchOutcome>>

\* run(): validateConfig, then the GET of getTests is sent
StartRun ==
  /\ pc = "start"
  /\ IF ~config.apiKey \/ ~config.siteId
       THEN Catch("validate", fs, calls)
       ELSE /\ calls' = [calls EXCEPT !.fetch = @ + 1]
            /\ pc' = "fetching"
            /\ UNCHANGED <<fs, failedStage, retval>>
  /\ UNCHANGED <<entry, config, exportedTests, testFileToCardIdMap, testsWritten,
                 secrets, exitCode, reportFile, submission, processExit,
                 materialized, engineStatus, fetchOutcome>>

\* getTests: the answer of the remote source
FetchOutcomes == {"ok", "unreachable", "error_status"}

\* variant: a failed GET is sent once more before the run gives up
FetchResponseRetry ==
  /\ pc = "fetching"
  /\ \E outcome \in FetchOutcomes, tests \in TestLists :
       /\ fetchOutcome' = outcome
       /\ IF outcome = "ok"
            THEN /\ exportedTests' = [isNull |-> FALSE, tests |-> tests]
                 /\ pc' = "mkdir"
                 /\ UNCHANGED <<fs, calls, failedStage, retval>>
            ELSE IF calls.fetch < 2
              THEN /\ calls' = [calls EXCEPT !.fetch = @ + 1]
                   /\ UNCHANGED <<pc, fs, failedStage, retval, exportedTests>>
              ELSE /\ Catch("fetch", fs, calls)
                   /\ UNCHANGED exportedTests
  /\ UNCHANGED <<entry, config, testFileToCardIdMap, testsWritten, secrets, exitCode,
                 reportFile, submission, processExit, materialized, engineStatus>>

FetchResponse ==
  /\ pc = "fetching"
  /\ \E outcome \in FetchOutcomes, tests \in TestLists :
       /\ fetchOutcome' = outcome
       /\ IF outcome = "ok"
            THEN /\ exportedTests' = [isNull |-> FALSE, tests |-> tests]
                 /\ pc' = "mkdir"
                 /\ UNCHANGED <<fs, calls, failedStage, retval>>
            ELSE /\ Catch("fetch", fs, calls)
                 /\ UNCHANGED exportedTests
  /\ UNCHANGED <<entry, config, testFileToCardIdMap, testsWritten, secrets, exitCode,
                 reportFile, submission, processExit, materialized, engineStatus>>

\* createTempDirectory; mkdirSync may be refused by the operating system
CreateTempDirectory ==
  /\ pc = "mkdir"
  /\ \E refused \in BOOLEAN :
       IF FsExists(fs, TempDir)
         THEN /\ pc' = "write"
              /\ UNCHANGED <<fs, calls, failedStage, retval>>
         ELSE IF refused \/ ~MkdirCanSucceed(fs, TempDir)
           THEN Catch("mkdir", fs, [calls EXCEPT !.mkdir = @ + 1])
           ELSE /\ fs' = MkdirRecursive(fs, TempDir)
                /\ calls' = [calls EXCEPT !.mkdir = @ + 1]
                /\ pc' = "write"
                /\ UNCHANGED <<failedStage, retval>>
  /\ UNCHANGED <<entry, config, exportedTests, testFileToCardIdMap, testsWritten,
                 secrets, exitCode, reportFile, submission, processExit,
                 materialized, engineStatus, fetchOutcome>>

\* writeTestFiles and the testsWritten === 0 branch
WriteTestFiles ==
  /\ pc = "write"
  /\ \E failAt \in 0..Len(exportedTests.tests) :
       LET r == writeTestFiles(fs, testFileToCardIdMap, exportedTests.tests, failAt)
           c == [calls EXCEPT !.write = @ + 1]
       IN /\ materialized' = r
          /\ testFileToCardIdMap' = r.map
          /\ IF r.threw
               THEN /\ Catch("write", r.fs, c)
                    /\ UNCHANGED testsWritten
             ELSE IF r.written = 0
               THEN /\ testsWritten' = 0
                    /\ fs' = CleanedFs(r.fs)
                    /\ calls' = CleanedCalls(r.fs, c)
                    /\ retval' = 0
                    /\ pc' = "returned"
                    /\ UNCHANGED failedStage
             ELSE /\ testsWritten' = r.written
                  /\ fs' = r.fs
                  /\ calls' = c
                  /\ pc' = "secrets"
                  /\ UNCHANGED <<failedStage, retval>>
  /\ UNCHANGED <<entry, config, exportedTests, secrets, exitCode, reportFile,
                 submission, processExit, engineStatus, fetchOutcome>>

\* getSecretsForPlaywright reads the environment
LoadSecrets ==
  /\ pc = "secrets"
  /\ \E env \in SUBSET EnvKeys :
       secrets' = getSecretsForPlaywright(env)
  /\ calls' = [calls EXCEPT !.secrets = @ + 1]
  /\ pc' = "execute"
  /\ UNCHANGED <<entry, config, exportedTests, fs, testFileToCardIdMap, testsWritten,
                 exitCode, reportFile, submission, retval, processExit,
                 failedStage, materialized, engineStatus, fetchOutcome>>

\* variant: the engine is started and run() goes on without waiting for its
\* exit
ExecuteTestsDetached ==
  /\ pc = "execute"
  /\ \E report \in ReportFiles :
       reportFile' = IF report.kind = "absent" THEN reportFile ELSE report
  /\ exitCode' = 0
  /\ calls' = [calls EXCEPT !.engine = @ + 1]
  /\ pc' = "report"
  /\ UNCHANGED <<entry, config, exportedTests, fs, testFileToCardIdMap, testsWritten,
                 secrets, submission, retval, processExit, failedStage, materialized,
                 engineStatus, fetchOutcome>>

\* variant: an engine that did not exit with 0 is launched a second time
ExecuteTestsRetry ==
  /\ pc = "execute"
  /\ \E status \in EngineStatuses, report \in ReportFiles :
       /\ engineStatus' = status
       /\ exitCode' = ExitCodeOf(status)
       /\ reportFile' = IF status = NoStatus \/ report.kind = "absent"
                           THEN reportFile ELSE report
       /\ pc' = IF status # 0 /\ calls.engine = 0 THEN "execute" ELSE "report"
  /\ calls' = [calls EXCEPT !.engine = @ + 1]
  /\ UNCHANGED <<entry, config, exportedTests, fs, testFileToCardIdMap, testsWritten,
                 secrets, submission, retval, processExit, failedStage, materialized,
                 fetchOutcome>>

\* executeTests: execSync blocks until the engine has exited; an engine that
\* ran replaces the report by the one of this execution, or writes none
ExecuteTests ==
  /\ pc = "execute"
  /\ \E status \in EngineStatuses, report \in ReportFiles :
       /\ engineStatus' = status
       /\ exitCode' = ExitCodeOf(status)
       /\ reportFile' = IF status = NoStatus \/ report.kind = "absent"
                           THEN reportFile ELSE report
  /\ calls' = [calls EXCEPT !.engine = @ + 1]
  /\ pc' = "report"
  /\ UNCHANGED <<entry, config, exportedTests, fs, testFileToCardIdMap, testsWritten,
                 secrets, submission, retval, processExit, failedStage, materialized,
                 fetchOutcome>>

\* variant: a missing report file is an error that reaches the catch of run()
ReportResultsAbsentFatal ==
  /\ pc = "report"
  /\ IF exportedTests.isNull \/ reportFile.kind = "absent"
       THEN /\ Catch("report", fs, calls)
            /\ UNCHANGED submission
     ELSE IF reportFile.kind = "malformed"
       THEN /\ pc' = "finish"
            /\ calls' = [calls EXCEPT !.correlate = @ + 1]
            /\ UNCHANGED <<submission, fs, failedStage, retval>>
     ELSE LET results == CollectResults(testFileToCardIdMap, reportFile.suites)
          IN IF results = <<>>
               THEN /\ pc' = "finish"
                    /\ calls' = [calls EXCEPT !.correlate = @ + 1]
                    /\ UNCHANGED <<submission, fs, failedStage, retval>>
               ELSE /\ submission' =
                         [sent |-> TRUE,
                          status |-> IF exitCode = 0 THEN "passed" ELSE "failed",
                          results |-> results,
                          response |-> "pending"]
                    /\ calls' = [calls EXCEPT !.correlate = @ + 1, !.submit = @ + 1]
                    /\ pc' = "submitting"
                    /\ UNCHANGED <<fs, failedStage, retval>>
  /\ UNCHANGED <<entry, config, exportedTests, testFileToCardIdMap, testsWritten,
                 secrets, exitCode, reportFile, processExit, materialized,
                 engineStatus, fetchOutcome>>

\* reportResults up to the POST
ReportResults ==
  /\ pc = "report"
  /\ IF exportedTests.isNull \/ reportFile.kind = "absent"
       THEN /\ pc' = "finish"
            /\ UNCHANGED <<submission, calls>>
     ELSE IF reportFile.kind = "malformed"
       THEN /\ pc' = "finish"
            /\ calls' = [calls EXCEPT !.correlate = @ + 1]
            /\ UNCHANGED submission
     ELSE LET results == CollectResults(testFileToCardIdMap, reportFile.suites)
          IN IF results = <<>>
               THEN /\ pc' = "finish"
                    /\ calls' = [calls EXCEPT !.correlate = @ + 1]
                    /\ UNCHANGED submission
               ELSE /\ submission' =
                         [sent |-> TRUE,
                          status |-> IF exitCode = 0 THEN "passed" ELSE "failed",
                          results |-> results,
                          response |-> "pending"]
                    /\ calls' = [calls EXCEPT !.correlate = @ + 1, !.submit = @ + 1]
                    /\ pc' = "submitting"
  /\ UNCHANGED <<entry, config, exportedTests, fs, testFileToCardIdMap, testsWritten,
                 secrets, exitCode, reportFile, retval, processExit, failedStage,
                 materialized, engineStatus, fetchOutcome>>

\* the answer to the POST; every failure is caught inside reportResults
SubmitResponses == {"ok", "unreachable", "error_status"}

\* variant: a failed POST escapes reportResults and reaches the catch of run()
SubmitResponseUncaught ==
  /\ pc = "submitting"
  /\ \E response \in SubmitResponses :
       /\ submission' = [submission EXCEPT !.response = response]
       /\ IF response = "ok"
            THEN /\ pc' = "finish"
                 /\ UNCHANGED <<fs, calls, failedStage, retval>>
            ELSE Catch("report", fs, calls)
  /\ UNCHANGED <<entry, config, exportedTests, testFileToCardIdMap, testsWritten,
                 secrets, exitCode, reportFile, processExit, materialized,
                 engineStatus, fetchOutcome>>

SubmitResponse ==
  /\ pc = "submitting"
  /\ \E response \in SubmitResponses :
       submission' = [submission EXCEPT !.response = response]
  /\ pc' = "finish"
  /\ UNCHANGED <<entry, config, exportedTests, fs, testFileToCardIdMap, testsWritten,
                 secrets, exitCode, reportFile, retval, processExit, calls,
                 failedStage, materialized, engineStatus, fetchOutcome>>

\* variant: run() returns exitCode without the cleanup
FinishRunWithoutCleanup ==
  /\ pc = "finish"
  /\ retval' = exitCode
  /\ pc' = "returned"
  /\ UNCHANGED <<entry, config, exportedTests, fs, testFileToCardIdMap, testsWritten,
                 secrets, exitCode, reportFile, submission, processExit, calls,
                 failedStage, materialized, engineStatus, fetchOutcome>>

\* the end of run(): cleanup, return exitCode
FinishRun ==
  /\ pc = "finish"
  /\ fs' = CleanedFs(fs)
  /\ calls' = CleanedCalls(fs, calls)
  /\ retval' = exitCode
  /\ pc' = "returned"
  /\ UNCHANGED <<entry, config, exportedTests, testFileToCardIdMap, testsWritten,
                 secrets, exitCode, reportFile, submission, processExit,
                 failedStage, materialized, engineStatus, fetchOutcome>>

\* runTests: process.exit(exitCode)
ProcessExit ==
  /\ pc = "returned"
  /\ entry = "cli"
  /\ processExit' = retval
  /\ pc' = "exited"
  /\ UNCHANGED <<entry, config, exportedTests, fs, testFileToCardIdMap, testsWritten,
                 secrets, exitCode, reportFile, submission, retval, calls,
                 failedStage, materialized, engineStatus, fetchOutcome>>

Next ==
  \/ RunTests
  \/ StartRun
  \/ FetchResponse
  \/ CreateTempDirectory
  \/ WriteTestFiles
  \/ LoadSecrets
  \/ ExecuteTests
  \/ ReportResults
  \/ SubmitResponse
  \/ FinishRun
  \/ ProcessExit

Spec == Init /\ [][Next]_vars

\* ------------------------------------------------------------ properties
RunReturned == pc \in {"returned", "exited"} /\ retval # NoValue

CodeIndexes(tests) == {i \in 1..Len(tests) : tests[i].playwright_code # NoCode}

ConfigIncomplete == ~config.apiKey \/ ~config.siteId

\* C1: whichever stage fails, cleanup has been performed when run() returns,
\* and after the return the workspace directory does not exist.
C1_CleanupOnEveryPath ==
  RunReturned => calls.cleanup >= 1 /\ ~FsExists(fs, TempDir)

\* a run whose materialization threw after the workspace had been created
C1_Witness ==
  /\ pc = "returned"
  /\ failedStage = "write"
  /\ calls.mkdir = 1
  /\ calls.rm = 1
  /\ ~FsExists(fs, TempDir)

\* the run took the testsWritten === 0 branch
NoTestsAvailable ==
  calls.write = 1 /\ ~materialized.threw /\ materialized.written = 0

\* C2: run() returns 0 exactly when the engine exited with 0 or no test was
\* available to execute; an engine that exits nonzero has its exit code
\* returned, and the CLI passes the returned value to process.exit unchanged.
C2_ReturnValue ==
  /\ RunReturned =>
       /\ (retval = 0) <=> ((calls.engine = 1 /\ engineStatus = 0) \/ NoTestsAvailable)
       /\ (calls.engine = 1 /\ engineStatus \in 1..255) => retval = engineStatus
  /\ (pc = "exited" /\ retval # NoValue) => processExit = retval

\* the engine exited with 2 and the process exits with 2
C2_Witness ==
  /\ pc = "exited"
  /\ calls.engine = 1
  /\ engineStatus = 2
  /\ retval = 2
  /\ processExit = 2

\* the value a run that launched the engine is claimed to return
C3_ValueFor(status) == IF status \in 0..255 THEN status ELSE 1

\* C3: once the engine has been launched, what run() returns depends on the
\* engine's status alone, whether the report could be read and submitted or not.
C3_ReportingNeverChangesResult ==
  (RunReturned /\ calls.engine = 1) => retval = C3_ValueFor(engineStatus)

\* the submission failed and the engine's 0 is returned
C3_Witness ==
  /\ pc = "returned"
  /\ engineStatus = 0
  /\ retval = 0
  /\ submission.sent
  /\ submission.response \in {"unreachable", "error_status"}

\* C4: when no fetched definition has source code, materialization is followed
\* by cleanup at once: no secrets, no engine, no submission, result 0, no
\* workspace left.
C4_NoTestsSkipsToCleanup ==
  (calls.write = 1 /\ CodeIndexes(exportedTests.tests) = {}) =>
     /\ RunReturned
     /\ retval = 0
     /\ calls.secrets = 0
     /\ calls.engine = 0
     /\ ~submission.sent
     /\ calls.cleanup = 1
     /\ ~FsExists(fs, TempDir)

\* definitions were fetched, none of them has code, the workspace was removed
C4_Witness ==
  /\ pc = "returned"
  /\ Len(exportedTests.tests) = MaxTests
  /\ CodeIndexes(exportedTests.tests) = {}
  /\ calls.mkdir = 1
  /\ calls.rm = 1
  /\ retval = 0

\* C5: with the API key or the site id missing nothing is fetched, created,
\* written or launched, and the run ends with a nonzero result.
C5_MissingConfigAborts ==
  ConfigIncomplete =>
     /\ calls.fetch = 0
     /\ calls.mkdir = 0
     /\ calls.write = 0
     /\ calls.engine = 0
     /\ fs = EmptyFs
     /\ pc \in {"cli", "start", "returned", "exited"}
     /\ pc = "returned" => retval = 1
     /\ pc = "exited" => processExit = 1

\* run() called with the site id missing has returned 1
C5_Witness ==
  /\ entry = "api"
  /\ config.apiKey
  /\ ~config.siteId
  /\ pc = "returned"
  /\ failedStage = "validate"
  /\ retval = 1

\* C6: a failed fetch ends the run with a nonzero result after one request,
\* with no workspace, no engine, no submission, and a cleanup that finds
\* nothing to remove.
C6_FetchFailureAborts ==
  fetchOutcome \in {"unreachable", "error_status"} =>
     /\ RunReturned
     /\ retval = 1
     /\ calls.fetch = 1
     /\ calls.mkdir = 0
     /\ calls.engine = 0
     /\ ~submission.sent
     /\ calls.cleanup = 1
     /\ calls.rm = 0
     /\ fs = EmptyFs

\* the remote source answered with an error status
C6_Witness ==
  /\ fetchOutcome = "error_status"
  /\ failedStage = "fetch"
  /\ pc = "returned"
  /\ calls.cleanup = 1

\* the definitions with code whose declared path is also declared by an
\* earlier definition with code
DuplicatePaths(tests) ==
  {j \in CodeIndexes(tests) :
     \E i \in CodeIndexes(tests) : i < j /\ tests[i].file_path = tests[j].file_path}

\* C7: after materialization there is exactly one file per definition with
\* code, at the definition's declared path, none for a definition without
\* code, and the count returned is the number of definitions with code.
C7_OneFilePerDefinition ==
  (calls.write = 1 /\ ~materialized.threw) =>
     LET tests == exportedTests.tests
         withCode == CodeIndexes(tests)
         files == DOMAIN materialized.fs.files
     IN /\ materialized.written = Cardinality(withCode)
        /\ Cardinality(files) = Cardinality(withCode)
        /\ \A i \in withCode : PathJoin(TempDir, tests[i].file_path) \in files
        /\ \A f \in files : \E i \in withCode : f = PathJoin(TempDir, tests[i].file_path)

\* C8: two definitions with code that declare the same path make
\* materialization fail; the second never replaces the first one's file or
\* map entry.
C8_DuplicatePathIsFatal ==
  (calls.write = 1 /\ DuplicatePaths(exportedTests.tests) # {}) =>
     /\ materialized.threw
     /\ failedStage = "write"

\* C9: a definition whose write fails is skipped; the other definitions with
\* code are written and mapped and the run goes on to execution.
C9_WriteFailureIsSkipped ==
  materialized.failedId # 0 =>
     /\ failedStage = "none"
     /\ \A i \in CodeIndexes(exportedTests.tests) \ {materialized.failedId} :
          PathJoin(TempDir, exportedTests.tests[i].file_path)
            \in DOMAIN materialized.fs.files \cap DOMAIN testFileToCardIdMap

\* ------------------------------------------- materializing fenced sources
\* characters a source text is made of
SourceTokens == {"F", "N", "x"}

SourceTexts == SeqsUpTo(SourceTokens, MaxSrcLen)

\* language tags of an opening fence; "" is no tag
FenceTags == {"", "TS", "L"}

\* S between an opening fence line and a closing fence line
Wrap(S, tag) ==
  <<"F">> \o (IF tag = "" THEN <<>> ELSE <<tag>>) \o <<"N">> \o S \o <<"N", "F">>

FenceInputs == SourceTexts \cup {Wrap(S, tag) : S \in SourceTexts, tag \in FenceTags}

\* a run that has fetched one definition whose source text is any of the inputs
InitFence ==
  /\ entry = "api"
  /\ config = [apiKey |-> TRUE, siteId |-> TRUE, reporting |-> FALSE]
  /\ pc = "mkdir"
  /\ \E code \in FenceInputs :
       exportedTests =
         [isNull |-> FALSE,
          tests |-> <<[id |-> 1, playwright_code |-> code, file_path |-> <<"a.ts">>]>>]
  /\ fs = EmptyFs
  /\ testFileToCardIdMap = <<>>
  /\ testsWritten = 0
  /\ secrets = {}
  /\ exitCode = NoValue
  /\ reportFile = NoReport
  /\ submission = NoSubmission
  /\ retval = NoValue
  /\ processExit = NoValue
  /\ calls = [NoCalls EXCEPT !.fetch = 1]
  /\ failedStage = "none"
  /\ materialized = NotMaterialized
  /\ engineStatus = NoValue
  /\ fetchOutcome = "ok"

NextFence ==
  \/ CreateTempDirectory
  \/ WriteTestFiles

SpecFence == InitFence /\ [][NextFence]_vars

\* C10: the file written for a source text S wrapped in an opening fence line
\* (with or without language tag) and a closing fence line holds exactly S;
\* a source text that does not start with a fence is written as it is.
C10_FenceStrippedExactly ==
  (calls.write = 1 /\ testsWritten = 1) =>
     LET code == exportedTests.tests[1].playwright_code
         content == materialized.fs.files[PathJoin(TempDir, <<"a.ts">>)]
     IN /\ \A S \in SourceTexts, tag \in FenceTags :
             code = Wrap(S, tag) => content = S
        /\ Head(code) # "F" => content = code

\* ------------------------------------------------ correlating a report
\* further attempts a report may hold: a passed attempt that carries an
\* error, an attempt that timed out
AttemptPassedWithError == [status |-> "passed", duration |-> 6, error |-> "soft"]

AttemptTimedOut == [status |-> "timedOut", duration |-> 9, error |-> "timeout"]

Attempts == {AttemptFailed, AttemptPassed, AttemptPassedWithError, AttemptTimedOut}

\* suite.file values: relative to the engine's root, absolute, below a
\* directory that itself is named eirtests-<digits>, of another run, and a
\* path without any eirtests-<digits> segment
ReportedFiles ==
  { <<"eirtests-1", "a.ts">>,
    <<"/", "tmp", "eirtests-1", "d", "a.ts">>,
    <<"work", "eirtests-2", "tmp", "eirtests-1", "a.ts">>,
    <<"eirtests-2", "a.ts">>,
    <<"/", "tmp", "o.ts">> }

\* reports of one suite with one spec and every sequence of attempts
AttemptReports ==
  {<<[file |-> f, specs |-> <<results>>]>> :
     f \in ReportedFiles, results \in SeqsUpTo(Attempts, MaxAttempts)}

\* reports of several suites with several specs, each spec without attempts
\* or with a failed attempt followed by a passed one
SuiteReports ==
  SeqsUpTo([file : { <<"eirtests-1", "a.ts">>,
                     <<"/", "tmp", "eirtests-1", "d", "a.ts">>,
                     <<"work", "eirtests-2", "tmp", "eirtests-1", "a.ts">> },
            specs : SeqsUpTo({<<>>, <<AttemptFailed, AttemptPassed>>}, MaxSpecs)],
           MaxSuites)

CorrelateReports == AttemptReports \cup SuiteReports

\* a fetched list whose definitions all have code
CorrelateTests ==
  { << [id |-> 1, playwright_code |-> <<"x">>, file_path |-> <<"a.ts">>],
       [id |-> 2, playwright_code |-> <<"x">>, file_path |-> <<"d", "a.ts">>],
       [id |-> 3, playwright_code |-> <<"x">>, file_path |-> <<"..", "o.ts">>] >> }

\* a run whose engine has exited with status 1 and left any of the reports
InitCorrelate ==
  /\ entry = "api"
  /\ config = [apiKey |-> TRUE, siteId |-> TRUE, reporting |-> TRUE]
  /\ pc = "report"
  /\ \E tests \in CorrelateTests :
       LET m == writeTestFiles(MkdirRecursive(EmptyFs, TempDir), <<>>, tests, 0)
       IN /\ exportedTests = [isNull |-> FALSE, tests |-> tests]
          /\ fs = m.fs
          /\ testFileToCardIdMap = m.map
          /\ testsWritten = m.written
          /\ materialized = m
  /\ secrets = {}
  /\ engineStatus = 1
  /\ exitCode = ExitCodeOf(1)
  /\ \E r \in CorrelateReports : reportFile = [kind |-> "ok", suites |-> r, by |-> 1]
  /\ submission = NoSubmission
  /\ retval = NoValue
  /\ processExit = NoValue
  /\ calls = [NoCalls EXCEPT !.fetch = 1, !.mkdir = 1, !.write = 1, !.secrets = 1,
                             !.engine = 1]
  /\ failedStage = "none"
  /\ fetchOutcome = "ok"

NextCorrelate == ReportResults

SpecCorrelate == InitCorrelate /\ [][NextCorrelate]_vars

\* the discriminator of this run's workspace
Discriminator == Last(TempDir)

Correlated == calls.correlate = 1

HasAttempts(suite) == \E j \in 1..Len(suite.specs) : suite.specs[j] # <<>>

RecordIds == {submission.results[n].test_card_id : n \in 1..Len(submission.results)}

\* C11: a suite reported as <prefix><discriminator>/<rel> is mapped to the
\* test id that materialization assigned to <rel>, whatever the prefix.
C11_AnyPrefixCorrelates ==
  Correlated =>
    \A i \in 1..Len(reportFile.suites) :
      LET suite == reportFile.suites[i]
      IN \A k \in 1..(Len(suite.file) - 1) :
           LET rel == SubSeq(suite.file, k + 1, Len(suite.file))
           IN (/\ suite.file[k] = Discriminator
               /\ PathJoin(TempDir, rel) \in DOMAIN testFileToCardIdMap
               /\ HasAttempts(suite))
              => testFileToCardIdMap[PathJoin(TempDir, rel)] \in RecordIds

\* the specs of a suite that have at least one attempt
AttemptedSpecs(suite) == SelectSeq(suite.specs, LAMBDA results : results # <<>>)

\* a suite whose looked-up path is a key of the map
Matched(suite) == TestFilePathOf(suite.file) \in DOMAIN testFileToCardIdMap

\* the last attempt of every attempted spec of every matched suite, in the
\* order of the report
RECURSIVE LastAttempts(_)
LastAttempts(suites) ==
  IF suites = <<>> THEN <<>>
  ELSE LET specs == AttemptedSpecs(Head(suites))
       IN (IF Matched(Head(suites))
             THEN [n \in 1..Len(specs) |-> Last(specs[n])]
             ELSE <<>>)
          \o LastAttempts(Tail(suites))

\* C12: every spec of a matched suite with at least one attempt yields one
\* record, whose passed flag and duration are those of the last attempt; a
\* spec without attempts yields none.
C12_LastAttemptIsAuthoritative ==
  Correlated =>
    LET last == LastAttempts(reportFile.suites)
        results == submission.results
    IN /\ Len(results) = Len(last)
       /\ \A n \in 1..Len(results) :
            /\ results[n].passed = (last[n].status = "passed")
            /\ results[n].duration_ms = last[n].duration

\* first attempt failed, second passed: one record, passed, with the second
\* attempt's duration
C12_Witness ==
  /\ Correlated
  /\ Len(reportFile.suites) = 1
  /\ reportFile.suites[1].specs = << <<AttemptFailed, AttemptPassed>> >>
  /\ Len(submission.results) = 1
  /\ submission.results[1].passed
  /\ submission.results[1].duration_ms = AttemptPassed.duration

\* ------------------------------------------------- a second, concurrent run
\* the workspace of another runner process on the same host, started from
\* the same working directory
OtherTempDir == <<"/", "tmp", "eirtests-2">>

\* the other run's createTempDirectory and writeTestFiles, for one definition
OtherMaterializes ==
  /\ ~FsExists(fs, OtherTempDir)
  /\ fs' = WriteFile(MkdirRecursive(fs, OtherTempDir),
                     PathJoin(OtherTempDir, <<"a.ts">>), <<"x">>)
  /\ UNCHANGED <<pc, entry, config, exportedTests, testFileToCardIdMap, testsWritten,
                 secrets, exitCode, reportFile, submission, retval, processExit,
                 calls, failedStage, materialized, engineStatus, fetchOutcome>>

\* the other run's engine leaves its report in the shared working directory
OtherExecutes ==
  /\ FsExists(fs, OtherTempDir)
  /\ reportFile' =
       [kind |-> "ok",
        suites |-> << [file |-> <<"eirtests-2", "a.ts">>,
                       specs |-> << <<AttemptPassed>> >>] >>,
        by |-> 2]
  /\ UNCHANGED <<pc, entry, config, exportedTests, fs, testFileToCardIdMap,
                 testsWritten, secrets, exitCode, submission, retval, processExit,
                 calls, failedStage, materialized, engineStatus, fetchOutcome>>

\* the other run's cleanup
OtherCleansUp ==
  /\ FsExists(fs, OtherTempDir)
  /\ fs' = RmRecursive(fs, OtherTempDir)
  /\ UNCHANGED <<pc, entry, config, exportedTests, testFileToCardIdMap, testsWritten,
                 secrets, exitCode, reportFile, submission, retval, processExit,
                 calls, failedStage, materialized, engineStatus, fetchOutcome>>

\* this run has fetched one definition with code
InitTwoRuns ==
  /\ entry = "api"
  /\ config = [apiKey |-> TRUE, siteId |-> TRUE, reporting |-> TRUE]
  /\ pc = "mkdir"
  /\ exportedTests =
       [isNull |-> FALSE,
        tests |-> <<[id |-> 1, playwright_code |-> <<"x">>, file_path |-> <<"a.ts">>]>>]
  /\ fs = EmptyFs
  /\ testFileToCardIdMap = <<>>
  /\ testsWritten = 0
  /\ secrets = {}
  /\ exitCode = NoValue
  /\ reportFile = NoReport
  /\ submission = NoSubmission
  /\ retval = NoValue
  /\ processExit = NoValue
  /\ calls = [NoCalls EXCEPT !.fetch = 1]
  /\ failedStage = "none"
  /\ materialized = NotMaterialized
  /\ engineStatus = NoValue
  /\ fetchOutcome = "ok"

NextTwoRuns ==
  \/ CreateTempDirectory
  \/ WriteTestFiles
  \/ LoadSecrets
  \/ ExecuteTests
  \/ ReportResults
  \/ SubmitResponse
  \/ FinishRun
  \/ OtherMaterializes
  \/ OtherExecutes
  \/ OtherCleansUp

SpecTwoRuns == InitTwoRuns /\ [][NextTwoRuns]_vars

\* the files below a directory
FilesBelow(f, dir) == [p \in {q \in DOMAIN f.files : IsPrefix(dir, q)} |-> f.files[p]]

\* C13: two concurrent runs with different discriminators do not collide: a
\* step of this run leaves the other run's workspace files as they are, a
\* step of the other run leaves this run's, and the records this run submits
\* are built from the report of its own engine.
C13_RunsDoNotCollide ==
  [][/\ pc' # pc => FilesBelow(fs', OtherTempDir) = FilesBelow(fs, OtherTempDir)
     /\ pc' = pc => FilesBelow(fs', TempDir) = FilesBelow(fs, TempDir)
     /\ (pc = "report" /\ pc' = "submitting") => reportFile.by = 1]_vars


\* ---------------------------------------------------------------------------
\* C14: once createTempDirectory has succeeded, a run that returns has removed
\* the workspace by exactly one removal, also when the engine could not be
\* started; no run removes it more than once.
WorkspaceCreated == calls.mkdir = 1 /\ failedStage # "mkdir"

C15_DisabledReportingSubmitsNothing ==
  ~config.reporting => ~submission.sent

\* ---------------------------------------------------------------------------
\* C16: when the engine has run and left no report file, reporting is skipped
\* without an error: nothing is correlated, nothing is submitted, no stage
\* fails, and run() returns the exit code computed from the engine's status.
ReportingIsOver == pc \in {"finish", "returned", "exited"}

C16_MissingReportSkipsReporting ==
  (calls.engine = 1 /\ reportFile.kind = "absent" /\ ReportingIsOver)
    => /\ calls.correlate = 0
       /\ calls.submit = 0
       /\ ~submission.sent
       /\ failedStage = "none"
       /\ RunReturned => retval = exitCode

C16_Witness ==
  /\ RunReturned
  /\ calls.engine = 1
  /\ engineStatus = 2
  /\ reportFile.kind = "absent"
  /\ retval = 2
  /\ ~submission.sent

\* ---------------------------------------------------------------------------
\* C17: a report none of whose suite files contains this run's discriminator
\* yields no record, and every record carries an id of the map built by
\* writeTestFiles.
HasDiscriminator(file) == \E k \in 1..Len(file) : file[k] = Discriminator

MapIds == {testFileToCardIdMap[p] : p \in DOMAIN testFileToCardIdMap}

C17_ForeignSuitesYieldNoRecord ==
  Correlated =>
    /\ (\A i \in 1..Len(reportFile.suites) : ~HasDiscriminator(reportFile.suites[i].file))
         => submission.results = <<>>
    /\ \A n \in 1..Len(submission.results) :
         submission.results[n].test_card_id \in MapIds

\* ---------------------------------------------------------------------------
\* C18: the records are, in report order, one per attempted spec of every
\* suite found in the map, each under that suite's id; specs without attempts
\* and suites not found in the map add nothing and change no other record.
RECURSIVE ExpectedIds(_)
ExpectedIds(suites) ==
  IF suites = <<>> THEN <<>>
  ELSE LET suite == Head(suites)
       IN (IF Matched(suite)
             THEN [n \in 1..Len(AttemptedSpecs(suite)) |->
                     testFileToCardIdMap[TestFilePathOf(suite.file)]]
             ELSE <<>>)
          \o ExpectedIds(Tail(suites))

RecordIdSeq ==
  [n \in 1..Len(submission.results) |-> submission.results[n].test_card_id]

C18_OneRecordPerAttemptedSpec ==
  Correlated =>
    /\ RecordIdSeq = ExpectedIds(reportFile.suites)
    /\ submission.results =
         CollectResults(testFileToCardIdMap, SelectSeq(reportFile.suites, Matched))

C18_Witness ==
  /\ Correlated
  /\ Len(reportFile.suites) = 2
  /\ ~Matched(reportFile.suites[1])
  /\ Len(reportFile.suites[1].specs) > 0
  /\ Matched(reportFile.suites[2])
  /\ Len(reportFile.suites[2].specs) = 2
  /\ reportFile.suites[2].specs[1] = <<>>
  /\ reportFile.suites[2].specs[2] # <<>>
  /\ Len(submission.results) = 1

\* ---------------------------------------------------------------------------
\* C19: a record is marked passed exactly when the last attempt's status is
\* "passed", and a record marked passed carries no error message.
C19_ErrorMessageOnlyOnFailure ==
  Correlated =>
    \A n \in 1..Len(submission.results) :
      /\ submission.results[n].passed = (LastAttempts(reportFile.suites)[n].status = "passed")
      /\ submission.results[n].passed => submission.results[n].error_message = ""

\* ---------------------------------------------------------------------------
\* C20: every file of the file system lies below the workspace directory, so
\* that removing the workspace removes everything the run wrote.
C20_WritesStayInWorkspace ==
  /\ \A p \in DOMAIN fs.files : IsPrefix(TempDir, p)
  /\ RunReturned => DOMAIN fs.files = {}


\* ---------------------------------------------------------------------------
\* A run that starts in an environment other runs have used: a directory may
\* already exist at this.tempDir (the name is a millisecond timestamp) and an
\* earlier run may have left its test-results.json in the working directory.
LeftoverFs ==
  [files |-> Put(<<>>, TempDir \o <<"old.ts">>, <<"y">>),
   dirs  |-> EmptyFs.dirs \cup {TempDir}]

\* the report of an earlier run, written by that run's engine (`by` = 2)
StaleReport ==
  [kind |-> "ok",
   suites |-> << [file |-> <<"eirtests-0", "a.ts">>, specs |-> << <<AttemptFailed>> >>] >>,
   by |-> 2]

LeftoverTests ==
  { <<[id |-> 1, playwright_code |-> <<"x">>, file_path |-> <<"a.ts">>]>>,
    <<[id |-> 1, playwright_code |-> NoCode, file_path |-> <<"a.ts">>]>>,
    <<[id |-> 1, playwright_code |-> <<"x">>, file_path |-> <<"a.ts">>],
      [id |-> 2, playwright_code |-> <<"x">>, file_path |-> <<"d", "a.ts">>]>> }

InitLeftovers ==
  /\ entry = "api"
  /\ config \in [apiKey : {TRUE}, siteId : {TRUE}, reporting : BOOLEAN]
  /\ pc = "mkdir"
  /\ \E tests \in LeftoverTests : exportedTests = [isNull |-> FALSE, tests |-> tests]
  /\ fs \in {EmptyFs, LeftoverFs}
  /\ testFileToCardIdMap = <<>>
  /\ testsWritten = 0
  /\ secrets = {}
  /\ exitCode = NoValue
  /\ reportFile \in {NoReport, StaleReport}
  /\ submission = NoSubmission
  /\ retval = NoValue
  /\ processExit = NoValue
  /\ calls = [NoCalls EXCEPT !.fetch = 1]
  /\ failedStage = "none"
  /\ materialized = NotMaterialized
  /\ engineStatus = NoValue
  /\ fetchOutcome = "ok"

NextLeftovers ==
  \/ CreateTempDirectory
  \/ WriteTestFiles
  \/ LoadSecrets
  \/ ExecuteTests
  \/ ReportResults
  \/ SubmitResponse
  \/ FinishRun

SpecLeftovers == InitLeftovers /\ [][NextLeftovers]_vars

\* C21: right after createTempDirectory has succeeded the workspace exists and
\* holds no file (the run has written none yet, so a directory found at the
\* path was not adopted); when the directory cannot be created the run ends
\* with 1 and has neither materialized nor executed anything.
C21_WorkspaceIsFresh ==
  /\ pc = "write" => (TempDir \in fs.dirs /\ DOMAIN FilesBelow(fs, TempDir) = {})
  /\ failedStage = "mkdir" =>
       (retval = 1 /\ calls.write = 0 /\ calls.engine = 0 /\ DOMAIN testFileToCardIdMap = {})


\* ---------------------------------------------------------------------------
\* cleanup() called repeatedly on file systems with and without the workspace
MaxCleanups == 2

\* files that may exist below the temp directory and outside of it
WorkspaceFiles ==
  {TempDir \o <<"a.ts">>, TempDir \o <<"b.ts">>,
   TempDir \o <<"d", "a.ts">>, TempDir \o <<"d", "b.ts">>}

OutsideFiles ==
  {<<"/", "tmp", "o.ts">>, OtherTempDir \o <<"a.ts">>, <<"/", "tmp", "test-results.json">>}

FsWith(paths, created) ==
  [files |-> [q \in paths |-> <<"x">>],
   dirs  |-> EmptyFs.dirs
               \cup UNION {Ancestors(PathDirname(q)) : q \in paths}
               \cup (IF created THEN {TempDir} ELSE {})]

CleanupInputs ==
  {FsWith(inside \cup outside, created) :
     inside \in SUBSET WorkspaceFiles, outside \in SUBSET OutsideFiles,
     created \in BOOLEAN}

InitCleanup ==
  /\ entry = "api"
  /\ config = [apiKey |-> TRUE, siteId |-> TRUE, reporting |-> FALSE]
  /\ pc = "cleanup"
  /\ exportedTests = [isNull |-> TRUE, tests |-> <<>>]
  /\ fs \in CleanupInputs
  /\ testFileToCardIdMap = <<>>
  /\ testsWritten = 0
  /\ secrets = {}
  /\ exitCode = NoValue
  /\ reportFile = NoReport
  /\ submission = NoSubmission
  /\ retval = NoValue
  /\ processExit = NoValue
  /\ calls = NoCalls
  /\ failedStage = "none"
  /\ materialized = NotMaterialized
  /\ engineStatus = NoValue
  /\ fetchOutcome = "none"

\* one call of cleanup()
Cleanup ==
  /\ pc = "cleanup"
  /\ calls.cleanup < MaxCleanups
  /\ fs' = CleanedFs(fs)
  /\ calls' = CleanedCalls(fs, calls)
  /\ UNCHANGED <<pc, entry, config, exportedTests, testFileToCardIdMap, testsWritten,
                 secrets, exitCode, reportFile, submission, retval, processExit,
                 failedStage, materialized, engineStatus, fetchOutcome>>

NextCleanup == Cleanup

SpecCleanup == InitCleanup /\ [][NextCleanup]_vars

\* C22: a call of cleanup() that finds no workspace changes nothing and removes
\* nothing, a call that follows another call changes nothing, no call raises
\* an error, and after every call the workspace does not exist.
C22_CleanupIsIdempotent ==
  [][/\ ~FsExists(fs, TempDir) => (fs' = fs /\ calls'.rm = calls.rm)
     /\ calls.cleanup >= 1 => (fs' = fs /\ calls'.rm = calls.rm)
     /\ ~FsExists(fs', TempDir)
     /\ failedStage' = "none"]_vars

\* cleanup() was called twice on a workspace with files; files outside remain
C22_Witness ==
  /\ pc = "cleanup"
  /\ calls.cleanup = 2
  /\ calls.rm = 1
  /\ ~FsExists(fs, TempDir)
  /\ DOMAIN fs.files = OutsideFiles


\* ---------------------------------------------------------------------------
\* C23: the stages of a run happen in the order fetch, workspace creation,
\* materialization, secrets loading, execution, correlation, submission,
\* cleanup: each stage has been performed once when the next one begins, every
\* file is written before the engine is launched, the engine has exited when
\* reportResults is entered, and the workspace exists until the answer to the
\* submission has arrived.
AllFilesWritten ==
  /\ ~materialized.threw
  /\ \A i \in CodeIndexes(exportedTests.tests) :
       PathJoin(TempDir, exportedTests.tests[i].file_path) \in DOMAIN materialized.fs.files

C23_StagesInOrder ==
  /\ calls.mkdir >= 1 => (calls.fetch = 1 /\ fetchOutcome = "ok")
  /\ calls.write >= 1 => calls.mkdir = 1
  /\ calls.secrets >= 1 => (calls.write = 1 /\ AllFilesWritten)
  /\ calls.engine >= 1 => (calls.secrets = 1 /\ AllFilesWritten)
  /\ pc = "execute" => FilesBelow(fs, TempDir) = FilesBelow(materialized.fs, TempDir)
  /\ pc \in {"report", "submitting", "finish"} =>
       (calls.engine = 1 /\ engineStatus # NoValue /\ exitCode # NoValue)
  /\ calls.correlate >= 1 => calls.engine = 1
  /\ calls.submit >= 1 => calls.correlate = 1
  /\ pc = "submitting" => (calls.rm = 0 /\ FsExists(fs, TempDir))
  /\ (calls.rm >= 1 /\ submission.sent) => submission.response # "pending"

\* a run in which every stage was performed
C23_Witness ==
  /\ pc = "returned"
  /\ calls = [fetch |-> 1, mkdir |-> 1, write |-> 1, secrets |-> 1, engine |-> 1,
              correlate |-> 1, submit |-> 1, cleanup |-> 1, rm |-> 1]
  /\ submission.response = "ok"
  /\ testsWritten = 2

\* ---------------------------------------------------------------------------
\* C24: from the end of writeTestFiles on, the keys of testFileToCardIdMap are
\* the paths of the files this run wrote, each key is mapped to the id of a
\* definition written to that path, and the map is the one writeTestFiles
\* left: no later stage adds, changes or removes an entry.
C24_MapMatchesMaterializedFiles ==
  calls.write >= 1 =>
    /\ testFileToCardIdMap = materialized.map
    /\ DOMAIN testFileToCardIdMap = DOMAIN materialized.fs.files
    /\ \A p \in DOMAIN testFileToCardIdMap :
         \E i \in CodeIndexes(exportedTests.tests) :
           /\ exportedTests.tests[i].id = testFileToCardIdMap[p]
           /\ PathJoin(TempDir, exportedTests.tests[i].file_path) = p
    /\ pc \in {"secrets", "execute", "report", "submitting", "finish"} =>
         DOMAIN testFileToCardIdMap = DOMAIN fs.files

\* two files were written, results were submitted and the run has cleaned up
C24_Witness ==
  /\ pc = "returned"
  /\ Cardinality(DOMAIN testFileToCardIdMap) = 2
  /\ submission.sent
  /\ calls.rm = 1
  /\ DOMAIN fs.files = {}

\* ---------------------------------------------------------------------------
\* C25: the engine is launched at most once in a run, and once in every run
\* that wrote at least one test file; an engine that could not be started
\* gives exit code 1, no stage fails, and run() returns 1.
C25_EngineLaunchedOnce ==
  /\ calls.engine <= 1
  /\ (RunReturned /\ calls.write = 1 /\ ~materialized.threw /\ materialized.written >= 1)
       => calls.engine = 1
  /\ (calls.engine >= 1 /\ engineStatus = NoStatus) =>
       /\ exitCode = 1
       /\ failedStage = "none"
       /\ RunReturned => retval = 1

\* the engine could not be started and the process exits with 1
C25_Witness ==
  /\ pc = "exited"
  /\ calls.engine = 1
  /\ engineStatus = NoStatus
  /\ failedStage = "none"
  /\ processExit = 1

\* ---------------------------------------------------------------------------
\* C26: every submission a run sends is built from a report written by the
\* engine of this run.
C26_NoStaleReportSubmitted ==
  submission.sent => reportFile.by = 1

====
